---------------------------- MODULE Spec2Model ----------------------------
(***************************************************************************)
(* Size-Constrained Region Merging (scrm/scrm.py).                         *)
(*                                                                         *)
(* The model follows merge_size_constrained step by step on a region       *)
(* adjacency graph (RAG): the set-up of the counters and of the edge heap, *)
(* the pop / latch / size check of each loop iteration, and the steps of   *)
(* an accepted merge (_rename_node, merge_scrm, RAG.merge_nodes,           *)
(* _revalidate_node_edges), then the final relabeling.                     *)
(*                                                                         *)
(* Conventions.                                                            *)
(*  - Colors have one channel.  A mean color and an edge weight are exact  *)
(*    rationals <<numerator, denominator>> (denominator > 0), compared by  *)
(*    cross multiplication.                                                *)
(*  - 'total color' is a numpy array, a mutable object: a node holds a     *)
(*    reference (an index of arrays) and `+=` writes through it.           *)
(*  - A heap item is the mutable list [wt, n1, n2, valid]; items holds     *)
(*    every item ever created, edge_heap the indices still in the heap,    *)
(*    and an edge's data names its 'heap item' by index (0: no such key).  *)
(*  - heapq pops an item that is least by (wt, n1, n2); among items equal  *)
(*    in all three the binary heap's layout decides, which is modelled as  *)
(*    a free choice.                                                       *)
(***************************************************************************)
EXTENDS Integers, Sequences, FiniteSets, TLC

\* Bounds of the explored inputs.
MaxRegions == 3
MaxPixels == 6
MaxPixelsFair == 4
MaxColor == 1
MaxDms == 3
MaxMas == 2
MaxMmu == 2
MaxRegionsTwoCalls == 4
MaxPixelsTwoCalls == 5
MaxColorTwoCalls == 0

VARIABLES
    pc,               \* position in merge_size_constrained
    labels,           \* the label array (flattened)
    dms, mas, mmu,    \* size parameters
    rag_copy, in_place_merge,
    caller,           \* the RAG as the caller passed it (nodes, attributes, edges)
    node_order,       \* rag.nodes, in insertion order
    pixel_count,      \* rag.nodes[n]['pixel count']
    total_color,      \* rag.nodes[n]['total color'], a reference into arrays
    arrays,           \* the numpy arrays behind 'total color'
    mean_color,       \* rag.nodes[n]['mean color']
    node_labels,      \* rag.nodes[n]['labels']
    edata,            \* edge {a, b} |-> [weight, item]
    max_id,           \* rag.max_id
    graph_keys,       \* keys written into rag.graph
    num_ge_mmu,       \* rag.graph['num_ge_mmu']
    area_lt_mmu,      \* rag.graph['area_lt_mmu']
    total_area, exp_final_num,
    items, edge_heap,
    partial_stop,
    n1, n2, n1_area, n2_area, src, dst, new_id,
    out,              \* the returned array
    cond_seen,        \* history: the latch condition held at some pop
    num_merges,       \* history: number of accepted merges
    rejected,         \* history: the pairs popped valid and rejected, less
                      \* those given a fresh item since
    prev_out          \* history: what the previous call on the same
                      \* arguments returned (<<>>: no previous call)

vars == <<pc, labels, dms, mas, mmu, rag_copy, in_place_merge, caller,
          node_order, pixel_count, total_color, arrays, mean_color,
          node_labels, edata, max_id, graph_keys, num_ge_mmu, area_lt_mmu,
          total_area, exp_final_num, items, edge_heap, partial_stop,
          n1, n2, n1_area, n2_area, src, dst, new_id, out, cond_seen,
          num_merges, rejected, prev_out>>

params == <<labels, dms, mas, mmu, rag_copy, in_place_merge, caller>>
locals == <<n1, n2, n1_area, n2_area, src, dst, new_id>>
nodeattrs == <<pixel_count, total_color, arrays, mean_color, node_labels>>
counters == <<graph_keys, num_ge_mmu, area_lt_mmu>>

-----------------------------------------------------------------------------
\* Helpers

Range(s) == {s[i] : i \in DOMAIN s}

Abs(x) == IF x < 0 THEN -x ELSE x

Max(S) == CHOOSE x \in S : \A y \in S : y <= x

Min(S) == CHOOSE x \in S : \A y \in S : x <= y

RECURSIVE SumOver(_, _)
SumOver(f, S) ==
    IF S = {} THEN 0
    ELSE LET x == CHOOSE y \in S : TRUE
         IN  f[x] + SumOver(f, S \ {x})

RECURSIVE Repeat(_, _)
Repeat(x, k) == IF k = 0 THEN <<>> ELSE <<x>> \o Repeat(x, k - 1)

RECURSIVE Flatten(_)
Flatten(ss) == IF ss = <<>> THEN <<>> ELSE Head(ss) \o Flatten(Tail(ss))

Remove(s, x) == SelectSeq(s, LAMBDA y : y # x)

\* Exact rationals <<num, den>>, den > 0.
RatLess(a, b) == a[1] * b[2] < b[1] * a[2]

RatEq(a, b) == a[1] * b[2] = b[1] * a[2]

\* Graph queries on the working RAG.
Live == Range(node_order)

Edges == DOMAIN edata

neighbors(n) == {m \in Live : {n, m} \in Edges}

Bool(b) == IF b THEN 1 ELSE 0


-----------------------------------------------------------------------------
\* weight_scrm: the distance between the mean colors of dst and n.
weight_scrm(mean, d, n) ==
    <<Abs(mean[d][1] * mean[n][2] - mean[n][1] * mean[d][2]),
      mean[d][2] * mean[n][2]>>

\* The inputs: a RAG as graph.rag_mean_color builds it from an image and a
\* label array (scrm), every region of uniform color, and the parameters.
NodePairs(n) == {{a, b} : a, b \in 0 .. n - 1} \ {{a} : a \in 0 .. n - 1}

InitialRag(n, area, color, E) ==
    LET mean == [i \in 0 .. n - 1 |-> <<color[i] * area[i], area[i]>>]
    IN  [nodes |-> [i \in 1 .. n |-> i - 1],
         pixel_count |-> area,
         total_color |-> [i \in 0 .. n - 1 |-> i],
         mean_color |-> mean,
         labels |-> [i \in 0 .. n - 1 |-> <<i>>],
         weight |-> [e \in E |-> weight_scrm(mean, Min(e), Max(e))]]

\* Before the call.
Init ==
    /\ pc = "idle"
    /\ caller = InitialRag(0, <<>>, <<>>, {})
    /\ labels = <<>> /\ node_order = <<>>
    /\ pixel_count = <<>> /\ total_color = <<>> /\ arrays = <<>>
    /\ mean_color = <<>> /\ node_labels = <<>> /\ edata = <<>>
    /\ max_id = 0 /\ dms = 0 /\ mas = 0 /\ mmu = 0
    /\ rag_copy = FALSE /\ in_place_merge = FALSE
    /\ graph_keys = {} /\ num_ge_mmu = 0 /\ area_lt_mmu = 0
    /\ total_area = 0 /\ exp_final_num = 0
    /\ items = <<>> /\ edge_heap = {} /\ partial_stop = FALSE
    /\ n1 = 0 /\ n2 = 0 /\ n1_area = 0 /\ n2_area = 0
    /\ src = 0 /\ dst = 0 /\ new_id = 0
    /\ out = <<>> /\ cond_seen = FALSE /\ num_merges = 0
    /\ rejected = {} /\ prev_out = <<>>

\* scrm line 32, rag = graph.rag_mean_color(img, labels): the RAG of an
\* image of at most max_regions regions and max_pixels pixels, with colors
\* 0 .. max_color.
BuildRag(max_regions, max_pixels, max_color) ==
    /\ pc = "idle"
    /\ \E n \in 1 .. max_regions :
        \E area \in [0 .. n - 1 -> 1 .. max_pixels],
           color \in [0 .. n - 1 -> 0 .. max_color],
           E \in SUBSET NodePairs(n) :
          /\ SumOver(area, 0 .. n - 1) <= max_pixels
          /\ caller' = InitialRag(n, area, color, E)
          /\ labels' = Flatten([i \in 1 .. n |-> Repeat(i - 1, area[i - 1])])
          /\ node_order' = [i \in 1 .. n |-> i - 1]
          /\ pixel_count' = area
          /\ total_color' = [i \in 0 .. n - 1 |-> i]
          /\ arrays' = [i \in 0 .. n - 1 |-> color[i] * area[i]]
          /\ mean_color' = caller'.mean_color
          /\ node_labels' = caller'.labels
          /\ edata' = [e \in E |-> [weight |-> caller'.weight[e], item |-> 0]]
          /\ max_id' = n - 1
    /\ pc' = "rag"
    /\ UNCHANGED <<dms, mas, mmu, rag_copy, in_place_merge, counters,
                   total_area, exp_final_num, items, edge_heap, partial_stop,
                   locals, out, cond_seen, num_merges,
                   rejected, prev_out>>

rag_mean_color == BuildRag(MaxRegions, MaxPixels, MaxColor)

\* The same on the smaller images of the fair specification.
rag_mean_color_small == BuildRag(MaxRegions, MaxPixelsFair, MaxColor)

\* The call merge_size_constrained(labels, rag, dms, mas, mmu, rag_copy,
\* in_place_merge, merge_scrm, weight_scrm).
Call ==
    /\ pc = "rag"
    /\ dms' \in 0 .. MaxDms
    /\ mas' \in 0 .. MaxMas
    /\ mmu' \in 0 .. MaxMmu
    /\ rag_copy' \in BOOLEAN
    /\ in_place_merge' \in BOOLEAN
    /\ pc' = "start"
    /\ UNCHANGED <<labels, caller, node_order, nodeattrs, edata, max_id,
                   counters, total_area, exp_final_num, items, edge_heap,
                   partial_stop, locals, out, cond_seen, num_merges,
                   rejected, prev_out>>

-----------------------------------------------------------------------------
\* Lines 84-110: the counters, the expected number of regions, the heap.

\* rag.graph['num_ge_mmu'] after the scan of lines 91-97.
CountGeMmu(pcnt, nodes, m) == Cardinality({n \in nodes : ~(pcnt[n] < m)})

\* rag.graph['area_lt_mmu'] after the scan of lines 91-97.
AreaLtMmu(pcnt, nodes, m) == SumOver(pcnt, {n \in nodes : pcnt[n] < m})

\* The edges in the order of their heap items: rag.edges() yields each edge
\* once, as (n1, n2) with n1 the endpoint that comes first in the node order.
EdgeBefore(e, f) ==
    \/ Min(e) < Min(f)
    \/ Min(e) = Min(f) /\ Max(e) <= Max(f)

EdgeIndex(e) == Cardinality({f \in Edges : EdgeBefore(f, e)})

InitialItems ==
    [i \in 1 .. Cardinality(Edges) |->
        LET e == CHOOSE f \in Edges : EdgeIndex(f) = i
        IN  [wt |-> edata[e].weight, n1 |-> Min(e), n2 |-> Max(e),
             valid |-> TRUE]]

Setup ==
    /\ pc = "start"
    /\ graph_keys' = {"num_ge_mmu", "area_lt_mmu"}
    /\ total_area' = SumOver(pixel_count, Live)
    /\ num_ge_mmu' = CountGeMmu(pixel_count, Live, mmu)
    /\ area_lt_mmu' = AreaLtMmu(pixel_count, Live, mmu)
    /\ IF dms = 0
       THEN \* line 99: ZeroDivisionError
            /\ pc' = "error"
            /\ UNCHANGED <<exp_final_num, items, edge_heap, edata>>
       ELSE /\ exp_final_num' = total_area' \div dms
            /\ items' = InitialItems
            /\ edge_heap' = DOMAIN InitialItems
            /\ edata' = [e \in Edges |->
                            [edata[e] EXCEPT !.item = EdgeIndex(e)]]
            /\ pc' = "loop"
    /\ UNCHANGED <<params, node_order, nodeattrs, max_id, partial_stop,
                   locals, out, cond_seen, num_merges,
                   rejected, prev_out>>

-----------------------------------------------------------------------------
\* Lines 111-153: one pop.

\* heapq's order on items: by weight, then n1, then n2.
KeyLess(a, b) ==
    \/ RatLess(a.wt, b.wt)
    \/ /\ RatEq(a.wt, b.wt)
       /\ \/ a.n1 < b.n1
          \/ a.n1 = b.n1 /\ a.n2 < b.n2

\* PopCandidates taking any item of the list, not the least.
PopCandidates_Any == edge_heap

\* The items heappop may return.
PopCandidates == {i \in edge_heap : \A j \in edge_heap : ~KeyLess(items[j], items[i])}

\* Line 116: num_ge_mmu + area_lt_mmu/dms < exp_final_num (dms > 0).
LatchCond == num_ge_mmu * dms + area_lt_mmu < exp_final_num * dms

\* Latch, re-evaluated at every pop instead of latched.
Latch_Unlatched == LatchCond

\* Lines 116-118.
Latch == IF LatchCond /\ ~partial_stop THEN TRUE ELSE partial_stop

\* Rejected without the rules for one region > mas and the other > mmu.
Rejected_NoMixedRule(a1, a2, stop) ==
    \/ a1 > mas /\ a2 > mas
    \/ stop /\ a1 >= mmu /\ a2 >= mmu

\* Rejected without the rule of the latch.
Rejected_NoLatchRule(a1, a2, stop) ==
    \/ a1 > mas /\ a2 > mas
    \/ a1 > mas /\ a2 > mmu
    \/ a1 > mmu /\ a2 > mas

\* Rejected with mas as a hard cap: one region > mas is enough.
Rejected_HardCap(a1, a2, stop) ==
    \/ a1 > mas \/ a2 > mas
    \/ a1 > mas /\ a2 > mmu
    \/ a1 > mmu /\ a2 > mas
    \/ stop /\ a1 >= mmu /\ a2 >= mmu

\* Rejected with the comparisons of the latch rule turned round.
Rejected_LatchInverted(a1, a2, stop) ==
    \/ a1 > mas /\ a2 > mas
    \/ a1 > mas /\ a2 > mmu
    \/ a1 > mmu /\ a2 > mas
    \/ stop /\ a1 <= mmu /\ a2 <= mmu

\* Lines 136-144: the pair is not allowed to merge.
Rejected(a1, a2, stop) ==
    \/ a1 > mas /\ a2 > mas
    \/ a1 > mas /\ a2 > mmu
    \/ a1 > mmu /\ a2 > mas
    \/ stop /\ a1 >= mmu /\ a2 >= mmu

\* InvalidateAt that invalidates nothing.
InvalidateAt_None(S) == items

\* InvalidateAt that invalidates the item of every edge of the graph.
InvalidateAt_All(S) ==
    LET hit == {edata[e].item : e \in Edges}
    IN  [i \in DOMAIN items |->
            IF i \in hit THEN [items[i] EXCEPT !.valid = FALSE] ELSE items[i]]

\* _invalidate_edge for every edge at one of the nodes of S.
InvalidateAt(S) ==
    LET hit == {edata[e].item : e \in {f \in Edges : f \cap S # {}}}
    IN  [i \in DOMAIN items |->
            IF i \in hit THEN [items[i] EXCEPT !.valid = FALSE] ELSE items[i]]

\* HeapAfterPop reading heap[0] without taking it out.
HeapAfterPop_Peek(i) == edge_heap

\* Line 112: the heap once heappop has taken item i out.
HeapAfterPop(i) == edge_heap \ {i}

PopCommon(i) ==
    /\ pc = "loop"
    /\ edge_heap # {}
    /\ i \in PopCandidates
    /\ edge_heap' = HeapAfterPop(i)
    /\ n1' = items[i].n1
    /\ n2' = items[i].n2
    /\ partial_stop' = Latch
    /\ cond_seen' = (cond_seen \/ LatchCond)
    /\ UNCHANGED <<params, node_order, nodeattrs, edata, max_id, counters,
                   total_area, exp_final_num, new_id, out>>

\* The popped item is stale: discarded.
PopStale ==
    \E i \in edge_heap :
        /\ PopCommon(i)
        /\ ~items[i].valid
        /\ pc' = "loop"
        /\ UNCHANGED <<items, n1_area, n2_area, src, dst, num_merges,
                       rejected, prev_out>>

\* The popped item is valid and the sizes, or the latch, reject the pair.
PopReject ==
    \E i \in edge_heap :
        /\ PopCommon(i)
        /\ items[i].valid
        /\ IF {items[i].n1, items[i].n2} \subseteq Live
           THEN /\ n1_area' = pixel_count[items[i].n1]
                /\ n2_area' = pixel_count[items[i].n2]
                /\ Rejected(n1_area', n2_area', partial_stop')
                /\ rejected' = rejected \cup {{items[i].n1, items[i].n2}}
                /\ pc' = "loop"
           ELSE \* line 134-135: KeyError
                /\ pc' = "error"
                /\ UNCHANGED <<n1_area, n2_area, rejected>>
        /\ UNCHANGED <<items, src, dst, num_merges, prev_out>>

\* The popped item is valid and accepted: the edges at n1 and n2 are
\* invalidated (lines 149-153), and in place src, dst = n1, n2 (line 160).
PopAccept ==
    \E i \in edge_heap :
        /\ PopCommon(i)
        /\ items[i].valid
        /\ {items[i].n1, items[i].n2} \subseteq Live
        /\ n1_area' = pixel_count[items[i].n1]
        /\ n2_area' = pixel_count[items[i].n2]
        /\ ~Rejected(n1_area', n2_area', partial_stop')
        /\ items' = InvalidateAt({items[i].n1, items[i].n2})
        /\ num_merges' = num_merges + 1
        /\ UNCHANGED <<rejected, prev_out>>
        /\ IF in_place_merge
           THEN /\ src' = items[i].n1
                /\ dst' = items[i].n2
                /\ pc' = "merge_func"
           ELSE /\ UNCHANGED <<src, dst>>
                /\ pc' = "rename"

-----------------------------------------------------------------------------
\* Lines 155-164: the steps of an accepted merge.

\* A function on the nodes, cut down to the nodes S.
Restrict(f, S) == [n \in S |-> f[n]]

\* Lines 156-158, _rename_node(rag, n2, next_id): a new node takes over the
\* attributes of n2 (the same objects) and its edges, with the weight only.
rename_node ==
    /\ pc = "rename"
    /\ LET next_id == max_id + 1
           nbrs == neighbors(n2)
           order == Remove(Append(node_order, next_id), n2)
           keep == Range(order) \ {next_id}
           moved(f) == [n \in Range(order) |->
                           IF n = next_id THEN f[n2] ELSE f[n]]
       IN  /\ node_order' = order
           /\ pixel_count' = moved(pixel_count)
           /\ total_color' = moved(total_color)
           /\ mean_color' = moved(mean_color)
           /\ node_labels' = moved(node_labels)
           /\ edata' = [e \in {f \in Edges : n2 \notin f}
                              \cup {{nbr, next_id} : nbr \in nbrs} |->
                           IF next_id \in e
                           THEN [weight |->
                                    edata[(e \ {next_id}) \cup {n2}].weight,
                                 item |-> 0]
                           ELSE edata[e]]
           /\ max_id' = IF nbrs = {} THEN max_id ELSE next_id
           /\ src' = n1
           /\ dst' = next_id
    /\ pc' = "merge_func"
    /\ UNCHANGED <<params, arrays, counters, total_area, exp_final_num,
                   items, edge_heap, partial_stop, n1, n2, n1_area, n2_area,
                   new_id, out, cond_seen, num_merges,
                   rejected, prev_out>>

\* DeltaNumGeMmu without the term of dst.
DeltaNumGeMmu_NoDst(src_area, dst_area, new_area) ==
    Bool(new_area >= mmu) - Bool(src_area >= mmu)

\* Lines 223-227 of merge_scrm: the changes of the two counters.
DeltaNumGeMmu(src_area, dst_area, new_area) ==
    Bool(new_area >= mmu) - Bool(src_area >= mmu) - Bool(dst_area >= mmu)

DeltaAreaLtMmu(src_area, dst_area, new_area) ==
    Bool(new_area < mmu) * new_area - Bool(src_area < mmu) * src_area
        - Bool(dst_area < mmu) * dst_area

\* MergedCount that leaves out the pixels of src.
MergedCount_DstOnly(src_area, dst_area) == dst_area

\* Line 217: the pixel count of dst after the merge.
MergedCount(src_area, dst_area) == dst_area + src_area

\* MergedColor that binds dst's total color to src's.
MergedColor_SrcOnly(src_color, dst_color) == src_color

\* Line 216: the total color of dst after the merge.
MergedColor(src_color, dst_color) == dst_color + src_color

\* Line 162, merge_scrm(rag, src, dst, mmu).
merge_scrm ==
    /\ pc = "merge_func"
    /\ LET src_area == pixel_count[src]
           dst_area == pixel_count[dst]
           new_area == MergedCount(src_area, dst_area)
       IN  /\ arrays' = [arrays EXCEPT ![total_color[dst]] =
                            MergedColor(arrays[total_color[src]],
                                        arrays[total_color[dst]])]
           /\ pixel_count' = [pixel_count EXCEPT ![dst] = new_area]
           /\ mean_color' = [mean_color EXCEPT ![dst] =
                                <<arrays'[total_color[dst]], new_area>>]
           /\ num_ge_mmu' = num_ge_mmu
                                + DeltaNumGeMmu(src_area, dst_area, new_area)
           /\ area_lt_mmu' = area_lt_mmu
                                + DeltaAreaLtMmu(src_area, dst_area, new_area)
    /\ pc' = "merge_nodes"
    /\ UNCHANGED <<params, node_order, total_color, node_labels, edata,
                   max_id, graph_keys, total_area, exp_final_num, items,
                   edge_heap, partial_stop, locals, out, cond_seen,
                   num_merges,
                   rejected, prev_out>>

\* MergedLabels that leaves out the labels of src.
MergedLabels_DstOnly(src_labels, dst_labels) == dst_labels

\* RAG.merge_nodes: the 'labels' of the merged node.
MergedLabels(src_labels, dst_labels) == src_labels \o dst_labels

\* Line 163, rag.merge_nodes(src, dst, weight_func) in place: every neighbor
\* of src or dst gets an edge to dst with the new weight (an edge that was
\* there keeps the rest of its data), dst takes the labels of both, and src
\* is removed with its edges.
merge_nodes ==
    /\ pc = "merge_nodes"
    /\ LET nbrs == (neighbors(src) \cup neighbors(dst)) \ {src, dst}
           order == Remove(node_order, src)
       IN  /\ edata' = [e \in {f \in Edges : src \notin f}
                              \cup {{nbr, dst} : nbr \in nbrs} |->
                           IF dst \in e
                           THEN [weight |->
                                    weight_scrm(mean_color, dst,
                                                CHOOSE n \in e : n # dst),
                                 item |-> IF e \in Edges
                                          THEN edata[e].item ELSE 0]
                           ELSE edata[e]]
           /\ node_order' = order
           /\ node_labels' =
                 [n \in Range(order) |->
                    IF n = dst
                    THEN MergedLabels(node_labels[src], node_labels[dst])
                    ELSE node_labels[n]]
           /\ pixel_count' = Restrict(pixel_count, Range(order))
           /\ total_color' = Restrict(total_color, Range(order))
           /\ mean_color' = Restrict(mean_color, Range(order))
    /\ new_id' = dst
    /\ pc' = "revalidate"
    /\ UNCHANGED <<params, arrays, max_id, counters, total_area,
                   exp_final_num, items, edge_heap, partial_stop, n1, n2,
                   n1_area, n2_area, src, dst, out, cond_seen, num_merges,
                   rejected, prev_out>>

\* Line 164, _revalidate_node_edges(rag, new_id, edge_heap): every edge at
\* the merged node has its old item (if it has one) invalidated and gets a
\* fresh valid item (wt, new_id, nbr), which is pushed.
revalidate_node_edges ==
    /\ pc = "revalidate"
    /\ LET nbrs == neighbors(new_id)
           base == Len(items)
           pos(n) == Cardinality({m \in nbrs : m <= n})
           fresh == [k \in 1 .. Cardinality(nbrs) |->
                        LET nbr == CHOOSE m \in nbrs : pos(m) = k
                        IN  [wt |-> edata[{new_id, nbr}].weight,
                             n1 |-> new_id, n2 |-> nbr, valid |-> TRUE]]
           old == {edata[{new_id, nbr}].item : nbr \in nbrs}
       IN  /\ items' = [i \in DOMAIN items |->
                           IF i \in old
                           THEN [items[i] EXCEPT !.valid = FALSE]
                           ELSE items[i]] \o fresh
           /\ edge_heap' = edge_heap \cup (base + 1 .. base + Cardinality(nbrs))
           /\ edata' = [e \in Edges |->
                           IF new_id \in e
                           THEN [edata[e] EXCEPT !.item =
                                    base + pos(CHOOSE n \in e : n # new_id)]
                           ELSE edata[e]]
           /\ rejected' = rejected \ {{new_id, nbr} : nbr \in nbrs}
    /\ pc' = "loop"
    /\ UNCHANGED <<params, node_order, nodeattrs, max_id, counters,
                   total_area, exp_final_num, partial_stop, locals, out,
                   cond_seen, num_merges, prev_out>>

-----------------------------------------------------------------------------
\* Lines 166-171: the relabeling.

\* AssignLabels numbering the regions from 1.
RECURSIVE AssignLabels_FromOne(_, _, _)
AssignLabels_FromOne(map, labs, ix) ==
    IF labs = <<>> THEN map
    ELSE AssignLabels_FromOne([map EXCEPT ![Head(labs)] = ix + 1],
                              Tail(labs), ix)

\* Lines 167-169: every label of the region is mapped to the index ix.
RECURSIVE AssignLabels(_, _, _)
AssignLabels(map, labs, ix) ==
    IF labs = <<>> THEN map
    ELSE AssignLabels([map EXCEPT ![Head(labs)] = ix], Tail(labs), ix)

\* LabelMap writing the node id instead of its position in rag.nodes.
RECURSIVE LabelMap_NodeIds(_)
LabelMap_NodeIds(k) ==
    IF k = 0 THEN [l \in 0 .. Max(Range(labels)) |-> l]
    ELSE AssignLabels(LabelMap_NodeIds(k - 1), node_labels[node_order[k]],
                      node_order[k])

\* label_map after the first k nodes of rag.nodes have been enumerated.
RECURSIVE LabelMap(_)
LabelMap(k) ==
    IF k = 0 THEN [l \in 0 .. Max(Range(labels)) |-> l]
    ELSE AssignLabels(LabelMap(k - 1), node_labels[node_order[k]], k - 1)

Remap ==
    /\ pc = "loop"
    /\ edge_heap = {}
    /\ out' = [i \in DOMAIN labels |-> LabelMap(Len(node_order))[labels[i]]]
    /\ pc' = "done"
    /\ UNCHANGED <<params, node_order, nodeattrs, edata, max_id, counters,
                   total_area, exp_final_num, items, edge_heap, partial_stop,
                   locals, cond_seen, num_merges,
                   rejected, prev_out>>

-----------------------------------------------------------------------------
Next ==
    \/ rag_mean_color
    \/ Call
    \/ Setup
    \/ PopStale
    \/ PopReject
    \/ PopAccept
    \/ rename_node
    \/ merge_scrm
    \/ merge_nodes
    \/ revalidate_node_edges
    \/ Remap

Spec == Init /\ [][Next]_vars

\* The interpreter runs the function to its end: the same steps under weak
\* fairness, on images of at most MaxPixelsFair pixels.
Run ==
    \/ Call
    \/ Setup
    \/ PopStale
    \/ PopReject
    \/ PopAccept
    \/ rename_node
    \/ merge_scrm
    \/ merge_nodes
    \/ revalidate_node_edges
    \/ Remap

NextFair ==
    \/ rag_mean_color_small
    \/ Run

FairSpec == Init /\ [][NextFair]_vars /\ WF_vars(Run)

\* The regions of the input.
InitialNodes == Range(caller.nodes)

\* Two calls on the same arguments but for in_place_merge: once the first
\* call has returned, its result is kept and the function is called again on
\* an equal RAG (as rag_mean_color built it) with the other merge strategy.
rag_mean_color_two_calls ==
    BuildRag(MaxRegionsTwoCalls, MaxPixelsTwoCalls, MaxColorTwoCalls)

CallAgain ==
    /\ pc = "done"
    /\ prev_out = <<>>
    /\ prev_out' = out
    /\ in_place_merge' = ~in_place_merge
    /\ node_order' = caller.nodes
    /\ pixel_count' = caller.pixel_count
    /\ total_color' = caller.total_color
    /\ arrays' = [n \in InitialNodes |-> caller.mean_color[n][1]]
    /\ mean_color' = caller.mean_color
    /\ node_labels' = caller.labels
    /\ edata' = [e \in DOMAIN caller.weight |->
                    [weight |-> caller.weight[e], item |-> 0]]
    /\ max_id' = Len(caller.nodes) - 1
    /\ graph_keys' = {} /\ num_ge_mmu' = 0 /\ area_lt_mmu' = 0
    /\ total_area' = 0 /\ exp_final_num' = 0
    /\ items' = <<>> /\ edge_heap' = {} /\ partial_stop' = FALSE
    /\ n1' = 0 /\ n2' = 0 /\ n1_area' = 0 /\ n2_area' = 0
    /\ src' = 0 /\ dst' = 0 /\ new_id' = 0
    /\ out' = <<>> /\ cond_seen' = FALSE /\ num_merges' = 0
    /\ rejected' = {}
    /\ pc' = "start"
    /\ UNCHANGED <<labels, dms, mas, mmu, rag_copy, caller>>

NextTwoCalls ==
    \/ rag_mean_color_two_calls
    \/ Run
    \/ CallAgain

TwoCallSpec == Init /\ [][NextTwoCalls]_vars

-----------------------------------------------------------------------------
\* The properties.

\* An iteration of the main loop is complete (or the loop has not begun, or
\* has ended).
AtLoopHead == pc \in {"loop", "done"}

\* Lines 78-79, rag = rag.copy(): the copy has node and edge dictionaries of
\* its own, filled with the same values.  The caller's RAG keeps its nodes,
\* edges, pixel counts, mean colors and labels (the record caller) whatever
\* is done to the copy, and the 'total color' of its nodes are the very
\* arrays the nodes of the copy start with.
CallerTotalColor == [n \in InitialNodes |-> arrays[caller.total_color[n]]]

\* C1. Aggregate consistency: after initialization and after every completed
\* loop iteration, num_ge_mmu is the number of live regions with pixel count
\* >= mmu and area_lt_mmu is the pixel count summed over the live regions
\* with pixel count < mmu.
C1_AggregateConsistency ==
    AtLoopHead =>
        /\ num_ge_mmu = Cardinality({n \in Live : pixel_count[n] >= mmu})
        /\ area_lt_mmu =
              SumOver(pixel_count, {n \in Live : pixel_count[n] < mmu})

C1_Witness ==
    /\ pc = "loop"
    /\ num_merges >= 1
    /\ num_ge_mmu > 0
    /\ area_lt_mmu > 0

\* C2 as stated. Area conservation at every point of the run after
\* initialization: the pixel counts of the live regions sum to total_area.
C2_AreaConservedAtAllPoints ==
    pc \notin {"idle", "rag", "start"} =>
        /\ total_area = SumOver(caller.pixel_count, InitialNodes)
        /\ SumOver(pixel_count, Live) = total_area

\* C2, amended. The pixel counts of the live regions sum to total_area at
\* every point of the run after initialization, except between merge_scrm
\* (which adds src's pixel count to dst) and the removal of src by
\* merge_nodes, where the sum is total_area plus src's pixel count.
C2_AreaConservedBetweenMerges ==
    pc \notin {"idle", "rag", "start"} =>
        /\ total_area = SumOver(caller.pixel_count, InitialNodes)
        /\ SumOver(pixel_count, Live) =
              total_area + (IF pc = "merge_nodes" THEN pixel_count[src] ELSE 0)

C2_Witness ==
    /\ pc = "loop"
    /\ num_merges >= 2
    /\ edge_heap # {}

\* C3. Oversized blocking: the two regions of an accepted merge, with their
\* pixel counts as read at the pop, are never (both > mas), nor (one > mas
\* and the other > mmu), latch or no latch.
C3_OversizedBlocking ==
    pc = "merge_func" =>
        /\ n1_area = pixel_count[src]
        /\ n2_area = pixel_count[dst]
        /\ ~(n1_area > mas /\ n2_area > mas)
        /\ ~(n1_area > mas /\ n2_area > mmu)
        /\ ~(n1_area > mmu /\ n2_area > mas)

C3_Witness ==
    /\ pc = "merge_func"
    /\ partial_stop
    /\ n1_area > mas
    /\ num_merges >= 2

\* C4. Once the latch is set, every accepted merge has a region with pixel
\* count < mmu.
C4_LatchedMergesAbsorbSmall ==
    (pc = "merge_func" /\ partial_stop) =>
        \/ pixel_count[src] < mmu
        \/ pixel_count[dst] < mmu

C4_Witness ==
    /\ pc = "merge_func"
    /\ partial_stop
    /\ pixel_count[src] < mmu
    /\ pixel_count[dst] >= mmu

\* C5. The latch starts false, and at each pop it is true if and only if
\* the latch condition held at this pop or at an earlier one: never reset.
C5_LatchIffConditionSeen == partial_stop = cond_seen

C5_Witness ==
    /\ pc = "loop"
    /\ edge_heap # {}
    /\ partial_stop
    /\ ~LatchCond

\* C6. Label partition: after initialization and after every completed loop
\* iteration every original label is in the 'labels' of exactly one live
\* region, once, and 'labels' hold nothing else.
C6_LabelPartition ==
    AtLoopHead =>
        /\ \A l \in InitialNodes :
              Cardinality({p \in {<<n, i>> : n \in Live, i \in DOMAIN caller.nodes} :
                              /\ p[2] \in DOMAIN node_labels[p[1]]
                              /\ node_labels[p[1]][p[2]] = l}) = 1
        /\ \A n \in Live : Range(node_labels[n]) \subseteq InitialNodes

C6_Witness ==
    /\ pc = "done"
    /\ \E n \in Live : Len(node_labels[n]) >= 3

\* C7. Dense relabeling: the returned array has the shape of the label
\* array, its values are exactly 0 .. k-1 for k surviving regions, and two
\* pixels get the same value if and only if their labels are in the same
\* surviving region.
C7_DenseRelabeling ==
    pc = "done" =>
        /\ DOMAIN out = DOMAIN labels
        /\ Range(out) = 0 .. Len(node_order) - 1
        /\ \A i, j \in DOMAIN labels :
              (out[i] = out[j]) <=>
                 \E n \in Live :
                    {labels[i], labels[j]} \subseteq Range(node_labels[n])

C7_Witness ==
    /\ pc = "done"
    /\ num_merges >= 1
    /\ Len(node_order) >= 2
    /\ node_order[1] # 0

\* C8. Termination: for dms > 0 the loop reaches an empty queue and the
\* function returns; after every completed iteration the number of live
\* regions is the initial number minus the number of accepted merges (each
\* accepted merge removes exactly one region, in place or renaming), and at
\* most N - 1 merges are accepted.
C8_Termination ==
    /\ (pc = "start" /\ dms > 0) ~> (pc = "done" /\ edge_heap = {})
    /\ [](AtLoopHead => Len(node_order) = Len(caller.nodes) - num_merges)
    /\ [](pc \notin {"idle"} => num_merges <= Len(caller.nodes) - 1)

C8_Witness ==
    /\ pc = "done"
    /\ ~in_place_merge
    /\ num_merges = Len(caller.nodes) - 1
    /\ num_merges >= 2

\* C9. Invalid parameters (dms <= 0, mmu <= 0 or mas < mmu) abort the run
\* before the main loop and before anything is written: no graph attribute,
\* no heap item, no change of the nodes and edges, no returned array.
C9_InvalidParametersRejected ==
    (dms <= 0 \/ mmu <= 0 \/ mas < mmu) =>
        /\ pc \in {"idle", "rag", "start", "error"}
        /\ graph_keys = {}
        /\ items = <<>>
        /\ edge_heap = {}
        /\ \A e \in Edges : edata[e].item = 0
        /\ node_order = caller.nodes
        /\ out = <<>>

\* C10. Two small regions merge: a valid popped pair with both pixel counts
\* < mmu, where mmu <= mas, is accepted whatever dms and the latch are; and
\* an input of two adjacent regions, both < mmu, ends as one region with the
\* sum of the pixel counts, the sum of the total colors and their quotient
\* as mean color.
C10_TwoSmallRegionsMerge ==
    /\ [][\A i \in edge_heap \ edge_heap' :
            (/\ pc = "loop"
             /\ items[i].valid
             /\ mmu <= mas
             /\ pixel_count[items[i].n1] < mmu
             /\ pixel_count[items[i].n2] < mmu)
            => pc' \in {"merge_func", "rename"}]_vars
    /\ [](( /\ pc = "done"
            /\ mmu <= mas
            /\ caller.nodes = <<0, 1>>
            /\ DOMAIN caller.weight = {{0, 1}}
            /\ caller.pixel_count[0] < mmu
            /\ caller.pixel_count[1] < mmu )
          => /\ Len(node_order) = 1
             /\ LET n == node_order[1]
                    count == caller.pixel_count[0] + caller.pixel_count[1]
                    color == caller.mean_color[0][1] + caller.mean_color[1][1]
                IN  /\ pixel_count[n] = count
                    /\ arrays[total_color[n]] = color
                    /\ mean_color[n] = <<color, count>>)

C10_Witness ==
    /\ pc = "merge_func"
    /\ partial_stop
    /\ mmu <= mas
    /\ n1_area < mmu
    /\ n2_area < mmu
    /\ mean_color[src][1] # mean_color[dst][1]


\* C11. Trivial input: on a graph without edges (a single region is one
\* such graph) nothing is ever pushed, so the loop makes no iteration and no
\* merge; the nodes, their attributes and the two counters keep the values
\* they had after initialization; and the returned array is the input
\* labeling up to renumbering, all zero for a single region.
C11_TrivialInput ==
    (pc \notin {"idle", "rag", "start"} /\ DOMAIN caller.weight = {}) =>
        /\ items = <<>> /\ edge_heap = {}
        /\ num_merges = 0 /\ ~cond_seen /\ ~partial_stop
        /\ n1 = 0 /\ n2 = 0 /\ src = 0 /\ dst = 0
        /\ node_order = caller.nodes /\ Edges = {}
        /\ pixel_count = caller.pixel_count
        /\ mean_color = caller.mean_color
        /\ node_labels = caller.labels
        /\ \A n \in Live : arrays[total_color[n]] = caller.mean_color[n][1]
        /\ num_ge_mmu =
              Cardinality({n \in InitialNodes : caller.pixel_count[n] >= mmu})
        /\ area_lt_mmu =
              SumOver(caller.pixel_count,
                      {n \in InitialNodes : caller.pixel_count[n] < mmu})
        /\ pc = "done" =>
              /\ Len(out) = Len(labels)
              /\ \A i, j \in DOMAIN labels :
                    (out[i] = out[j]) <=> (labels[i] = labels[j])
              /\ Len(caller.nodes) = 1 => \A i \in DOMAIN out : out[i] = 0

C11_Witness ==
    /\ pc = "done"
    /\ DOMAIN caller.weight = {}
    /\ Len(caller.nodes) = 1
    /\ Len(out) >= 2

\* C12. rag_copy frame: with rag_copy set the caller's RAG is as it was
\* before the call, whatever merges are made on the copy: the same nodes and
\* edges, and for every node the same pixel count, total color, mean color
\* and labels.  (Nodes, edges, pixel counts, mean colors and labels live in
\* dictionaries the copy does not share; the total colors are left.)
C12_CallerRagUnchanged ==
    (rag_copy /\ pc \notin {"idle", "rag"}) =>
        \A n \in InitialNodes :
            /\ CallerTotalColor[n] = caller.mean_color[n][1]
            /\ CallerTotalColor[n] * caller.mean_color[n][2]
                  = caller.mean_color[n][1] * caller.pixel_count[n]

\* The entries still in the queue whose flag is true and that name pair e.
ValidEntries(e) ==
    {i \in edge_heap : items[i].valid /\ {items[i].n1, items[i].n2} = e}

\* C13 as stated. Queue-entry invariant: after initialization and after
\* every completed iteration, every live edge whose heap item has its flag
\* true has exactly one entry still in the queue, that item.
C13_ValidEdgeQueuedOnce ==
    AtLoopHead =>
        \A e \in Edges :
            (edata[e].item # 0 /\ items[edata[e].item].valid)
                => ValidEntries(e) = {edata[e].item}

\* C13. Queue-entry invariant: after initialization and after every
\* completed iteration, every live edge references a heap item whose flag is
\* true; that item is the one entry with flag true for the pair still in
\* the queue, unless the pair was popped and rejected and no merge has
\* given it a fresh item since: then the queue holds no such entry.
C13_ValidEdgeQueuedUnlessRejected ==
    AtLoopHead =>
        \A e \in Edges :
            /\ edata[e].item # 0
            /\ items[edata[e].item].valid
            /\ {items[edata[e].item].n1, items[edata[e].item].n2} = e
            /\ ValidEntries(e) =
                  IF e \in rejected THEN {} ELSE {edata[e].item}

C13_Witness ==
    /\ pc = "loop"
    /\ \E e \in Edges : e \in rejected /\ ValidEntries(e) = {}
    /\ \E e \in Edges : e \notin rejected /\ ValidEntries(e) # {}

\* C14. Valid entries reference live adjacent regions: at every pop, an
\* entry of the queue whose flag is true names two distinct region ids that
\* are both in the graph and adjacent (and it is the heap item of their
\* edge); so the loop never reads the pixel count of a retired id: the only
\* exception the run can raise is the division by dms = 0 before the loop.
C14_ValidEntriesLive ==
    /\ pc = "loop" =>
          \A i \in edge_heap :
              items[i].valid =>
                  /\ items[i].n1 # items[i].n2
                  /\ {items[i].n1, items[i].n2} \subseteq Live
                  /\ {items[i].n1, items[i].n2} \in Edges
                  /\ edata[{items[i].n1, items[i].n2}].item = i
    /\ pc = "error" => (dms = 0 /\ items = <<>>)

C14_Witness ==
    /\ pc = "loop"
    /\ ~in_place_merge
    /\ num_merges >= 1
    /\ \E i \in edge_heap : items[i].valid
    /\ \E i \in edge_heap :
          ~items[i].valid /\ ~({items[i].n1, items[i].n2} \subseteq Live)

\* The initial pixel counts, and the initial total colors, summed over the
\* original labels of a region's 'labels' list.
InitialCount(labs) == SumOver(caller.pixel_count, Range(labs))

InitialColor(labs) ==
    SumOver([l \in InitialNodes |-> caller.mean_color[l][1]], Range(labs))

\* C15. Region attribute invariant: after every completed iteration each
\* live region's pixel count is the sum of the initial pixel counts of the
\* labels in its 'labels' list (no label twice), its total color the sum of
\* their initial total colors, and its mean color the quotient of the two;
\* and when merge_scrm has run, dst has pixel count area_src + area_dst.
C15_RegionAttributes ==
    /\ AtLoopHead =>
          \A n \in Live :
              /\ Cardinality(Range(node_labels[n])) = Len(node_labels[n])
              /\ pixel_count[n] = InitialCount(node_labels[n])
              /\ arrays[total_color[n]] = InitialColor(node_labels[n])
              /\ mean_color[n] = <<arrays[total_color[n]], pixel_count[n]>>
    /\ pc \in {"merge_nodes", "revalidate"} =>
          pixel_count[dst] = n1_area + n2_area

C15_Witness ==
    /\ pc = "loop"
    /\ num_merges >= 2
    /\ \E n \in Live :
          /\ Len(node_labels[n]) = 3
          /\ arrays[total_color[n]] = 2
          /\ pixel_count[n] >= 4

\* C16. Permanent pruning: a pair whose valid entry was popped and rejected
\* is not queued again, and no valid entry for it is popped, unless an
\* accepted merge in between has one of the two as an endpoint and leaves
\* the surviving region adjacent to the other (the fresh entry pushed for
\* the pair at line 164).
C16_PermanentPruning ==
    /\ [][\A i \in edge_heap \ edge_heap' :
            (pc = "loop" /\ items[i].valid)
                => {items[i].n1, items[i].n2} \notin rejected]_vars
    /\ [](\A e \in rejected : ValidEntries(e) = {})

\* A merge is about to push a fresh entry for a pair rejected before.
C16_Witness ==
    /\ pc = "revalidate"
    /\ \E nbr \in neighbors(new_id) : {new_id, nbr} \in rejected

\* C17. Greedy order with lazy deletion: a popped entry whose flag is true
\* (the pair that reaches the size / latch check, and so every accepted
\* merge) has the least weight of all entries in the queue whose flag is
\* true at that moment; a popped entry whose flag is false is discarded and
\* the step changes neither the graph, nor the region attributes, nor the
\* heap items, nor num_ge_mmu / area_lt_mmu.
C17_GreedyLazyDeletion ==
    [][\A i \in edge_heap \ edge_heap' :
          pc = "loop" =>
              /\ items[i].valid =>
                    \A j \in edge_heap :
                        items[j].valid => ~RatLess(items[j].wt, items[i].wt)
              /\ ~items[i].valid =>
                    /\ pc' = "loop"
                    /\ UNCHANGED <<node_order, nodeattrs, edata, max_id,
                                   counters, items, num_merges>>]_vars

\* A stale entry is ahead of a valid one in the queue.
C17_Witness ==
    /\ pc = "loop"
    /\ num_merges >= 1
    /\ \E i, j \in edge_heap :
          /\ ~items[i].valid
          /\ items[j].valid
          /\ KeyLess(items[i], items[j])

C19_FixpointAtTermination ==
    pc = "done" =>
        \A e \in Edges :
            \E a, b \in e :
                /\ a # b
                /\ \/ pixel_count[a] > mas /\ pixel_count[b] > mas
                   \/ pixel_count[a] > mas /\ pixel_count[b] > mmu
                   \/ pixel_count[a] > mmu /\ pixel_count[b] > mas
                   \/ /\ partial_stop
                      /\ pixel_count[a] >= mmu
                      /\ pixel_count[b] >= mmu

\* A run with a merge ends with an edge that only the latch rule rejects.
C19_Witness ==
    /\ pc = "done"
    /\ num_merges >= 1
    /\ \E e \in Edges :
          /\ partial_stop
          /\ \A n \in e : pixel_count[n] >= mmu /\ pixel_count[n] <= mas

\* The nodes reached from the nodes S along the edges E.
RECURSIVE ReachableFrom(_, _)
ReachableFrom(S, E) ==
    LET T == S \cup {m \in InitialNodes : \E n \in S : {n, m} \in E}
    IN  IF T = S THEN S ELSE ReachableFrom(T, E)

\* The initial graph is connected.
InitiallyConnected ==
    ReachableFrom({caller.nodes[1]}, DOMAIN caller.weight) = InitialNodes

\* C20. Undersized regions are absorbed: if mmu <= mas then, when the loop
\* has ended, every live region with pixel count < mmu has no neighbor; so
\* on a connected initial graph either one region is left or every region
\* left has pixel count >= mmu.
C20_UndersizedAbsorbed ==
    (pc = "done" /\ mmu <= mas) =>
        /\ \A n \in Live : pixel_count[n] < mmu => neighbors(n) = {}
        /\ InitiallyConnected =>
              \/ Len(node_order) = 1
              \/ \A n \in Live : pixel_count[n] >= mmu

\* A connected graph with an undersized region ends with several regions.
C20_Witness ==
    /\ pc = "done"
    /\ mmu <= mas
    /\ InitiallyConnected
    /\ \E n \in InitialNodes : caller.pixel_count[n] < mmu
    /\ num_merges >= 1
    /\ Len(node_order) >= 2

=============================================================================
